---- MODULE Spec2Model ----
(***************************************************************************)
(* Model of src/consulta.py (class CNPJConsulta): a batch job that reads   *)
(* a list of CNPJs from a CSV file, fetches one JSON record per CNPJ,      *)
(* accumulates the flattened records in a table (result_df), post-         *)
(* processes the table (normalizar_dados) and writes it (salvar_resultado).*)
(*                                                                         *)
(* Text is modelled as sequences of one-character strings so that string   *)
(* concatenation, str() of an integer label and the regular expression     *)
(* ^\d+ are computed rather than assumed.                                  *)
(***************************************************************************)
EXTENDS Integers, Sequences, FiniteSets, TLC

\* ---------------------------------------------------------------- bounds
MaxIds == 2      \* longest identifier list read from the input file
MaxCnaes == 2    \* longest cnaes_secundarios list in an upstream record
MaxArray == 2    \* longest JSON array returned as a whole response body

\* ------------------------------------------------------------------ text
DigitSeq == <<"0", "1", "2", "3", "4", "5", "6", "7", "8", "9">>

Digits == {DigitSeq[d] : d \in 1..10}

DigitVal(c) == (CHOOSE d \in 1..10 : DigitSeq[d] = c) - 1

\* str(n) for a non-negative integer n
RECURSIVE Decimal(_)
Decimal(n) ==
  IF n < 10 THEN <<DigitSeq[n + 1]>>
  ELSE Decimal(n \div 10) \o <<DigitSeq[(n % 10) + 1]>>

\* int(s) for a string of digits s
RECURSIVE ParseInt(_)
ParseInt(s) ==
  IF s = <<>> THEN 0
  ELSE 10 * ParseInt(SubSeq(s, 1, Len(s) - 1)) + DigitVal(s[Len(s)])

AllDigits(s) == s # <<>> /\ \A k \in 1..Len(s) : s[k] \in Digits

\* re.match(r"^\d+", s): s begins with at least one digit
StartsWithDigit(s) == s # <<>> /\ s[1] \in Digits

URI ==
  <<"h", "t", "t", "p", "s", ":", "/", "/", "m", "i", "n", "h", "a", "r",
    "e", "c", "e", "i", "t", "a", ".", "o", "r", "g", "/">>

QSA == <<"q", "s", "a">>

CNAES ==
  <<"c", "n", "a", "e", "s", "_", "s", "e", "c", "u", "n", "d", "a", "r",
    "i", "o", "s">>

PREFIX ==
  <<"c", "n", "a", "e", "_", "s", "e", "c", "u", "n", "d", "a", "r", "i",
    "o", "_">>

\* ------------------------------------------------- python values, labels
\* A python value that is either an int or a str (a CSV cell as parsed, a
\* column label).  The unused field keeps a fixed filler so that two values
\* are equal exactly when the python objects are equal.
IntVal(n) == [kind |-> "int", n |-> n, s |-> <<>>]

StrVal(s) == [kind |-> "str", n |-> 0, s |-> s]

\* str(column)
Str(v) == IF v.kind = "int" THEN Decimal(v.n) ELSE v.s

\* -------------------------------------------------------- the input file
\* Cells of the cnpj column as written in the file: digits only with a
\* leading zero, digits only, and a formatted identifier.
CellSamples == {<<"0", "7">>, <<"7">>, <<"7", "/", "1">>}

SeqsUpTo(S, n) == UNION {[1..k -> S] : k \in 0..n}

CsvColumns == SeqsUpTo(CellSamples, MaxIds)

\* pd.read_csv(...)["cnpj"].tolist(): the parser infers the column type;
\* a column whose cells are all integers comes back as python ints, any
\* other column as the strings written in the file.
_ler_csv(column) ==
  IF column # <<>> /\ \A k \in 1..Len(column) : AllDigits(column[k])
  THEN [k \in 1..Len(column) |-> IntVal(ParseInt(column[k]))]
  ELSE [k \in 1..Len(column) |-> StrVal(column[k])]

\* ------------------------------------------------------------ JSON values
\* A cell value: JSON null / NaN, a scalar, a list of n objects, or one
\* object taken out of such a list.
Val(k, n) == [k |-> k, n |-> n]

NaN == Val("null", 0)

Scalar == Val("scalar", 0)

ListOf(n) == Val("list", n)

Dict == Val("dict", 0)

\* A field of a JSON object: a key with a scalar, null or list value
\* (sub = <<>>) or with a nested object (k = "object", sub its fields).
Field(key, v) == [key |-> key, k |-> v.k, n |-> v.n, sub |-> <<>>]

ObjectField(key, sub) == [key |-> key, k |-> "object", n |-> 0, sub |-> sub]

UF == <<"u", "f">>

\* Upstream records the model draws from: a complete record, a record with
\* a nested object listed first, records that lack qsa and/or
\* cnaes_secundarios, an error body, a record with a null
\* cnaes_secundarios, and a record with a top-level key made of a digit.
RecFull(n) == <<Field(UF, Scalar), Field(QSA, ListOf(1)), Field(CNAES, ListOf(n))>>

RecNested ==
  <<ObjectField(<<"a">>, <<Field(<<"b">>, Scalar)>>), Field(QSA, ListOf(1)),
    Field(CNAES, ListOf(1))>>

RecNoQsa == <<Field(UF, Scalar), Field(CNAES, ListOf(1))>>

RecMessage == <<Field(<<"m", "s", "g">>, Scalar)>>

RecNullCnaes == <<Field(QSA, ListOf(0)), Field(CNAES, NaN)>>

RecDigitKey ==
  <<Field(<<"0">>, Scalar), Field(QSA, ListOf(1)), Field(CNAES, ListOf(1))>>

Records ==
  {RecFull(n) : n \in 0..MaxCnaes}
    \cup {RecNested, RecNoQsa, RecMessage, RecNullCnaes, RecDigitKey}

ArrayItems == {RecFull(1), RecMessage}

\* What one GET can produce: the request raises, the body is not JSON, or
\* the body parses to an object, an array of objects or a scalar.  ok tells
\* whether the HTTP status was 2xx.
Resp(ok, shape, items) == [ok |-> ok, shape |-> shape, items |-> items]

NoData == Resp(TRUE, "none", <<>>)

Responses ==
  {Resp(TRUE, "object", <<r>>) : r \in Records}
    \cup {Resp(FALSE, "object", <<RecMessage>>)}
    \cup {Resp(TRUE, "array", a) : a \in SeqsUpTo(ArrayItems, MaxArray)}
    \cup {Resp(TRUE, "scalar", <<>>)}
    \cup {Resp(ok, "notjson", <<>>) : ok \in BOOLEAN}
    \cup {Resp(FALSE, "raises", <<>>)}

\* ------------------------------------------------------ pandas operations
\* The flat dict json_normalize builds from one object: the top-level
\* non-object fields in order, then the fields of nested objects under
\* dotted names.
RECURSIVE FlattenNested(_)
FlattenNested(rec) ==
  IF rec = <<>> THEN <<>>
  ELSE (IF Head(rec).k = "object"
        THEN [j \in 1..Len(Head(rec).sub) |->
                [label |-> StrVal(Head(rec).key \o <<".">> \o Head(rec).sub[j].key),
                 val |-> Val(Head(rec).sub[j].k, Head(rec).sub[j].n)]]
        ELSE <<>>)
       \o FlattenNested(Tail(rec))

RECURSIVE FlattenTop(_)
FlattenTop(rec) ==
  IF rec = <<>> THEN <<>>
  ELSE (IF Head(rec).k # "object"
        THEN <<[label |-> StrVal(Head(rec).key),
                val |-> Val(Head(rec).k, Head(rec).n)]>>
        ELSE <<>>)
       \o FlattenTop(Tail(rec))

Flatten(rec) == FlattenTop(rec) \o FlattenNested(rec)

Range(f) == {f[x] : x \in DOMAIN f}

\* cols followed by the labels of more that cols does not have yet
RECURSIVE AppendNew(_, _)
AppendNew(cols, more) ==
  IF more = <<>> THEN cols
  ELSE AppendNew(IF Head(more) \in Range(cols) THEN cols
                 ELSE Append(cols, Head(more)),
                 Tail(more))

Lookup(dict, label) ==
  IF \E j \in 1..Len(dict) : dict[j].label = label
  THEN dict[CHOOSE j \in 1..Len(dict) : dict[j].label = label].val
  ELSE NaN

RECURSIVE UnionKeys(_)
UnionKeys(dicts) ==
  IF dicts = <<>> THEN <<>>
  ELSE AppendNew([j \in 1..Len(Head(dicts)) |-> Head(dicts)[j].label],
                 UnionKeys(Tail(dicts)))

\* A table: the column labels in order and the rows in order.  A row holds
\* its cells by column position; src is an annotation that records which
\* identifier (position in self.cnpjs) the row was fetched for.
Frame(cols, rows) == [isNone |-> FALSE, cols |-> cols, rows |-> rows]

Row(src, cells) == [src |-> src, cells |-> cells]

None == [isNone |-> TRUE, cols |-> <<>>, rows |-> <<>>]

\* pd.DataFrame(pd.json_normalize(data)) for an object or an array of
\* objects: one row per object, columns in first-seen order.
json_normalize(items, src) ==
  LET dicts == [r \in 1..Len(items) |-> Flatten(items[r])]
      cols == UnionKeys(dicts)
  IN Frame(cols,
           [r \in 1..Len(dicts) |->
              Row(src, [c \in 1..Len(cols) |-> Lookup(dicts[r], cols[c])])])

\* the rows of frame laid out under the columns cols
Reindex(frame, cols) ==
  [r \in 1..Len(frame.rows) |->
     Row(frame.rows[r].src,
         [c \in 1..Len(cols) |->
            IF cols[c] \in Range(frame.cols)
            THEN frame.rows[r].cells[
                   CHOOSE p \in 1..Len(frame.cols) : frame.cols[p] = cols[c]]
            ELSE NaN])]

\* variant: pd.concat([a, b], join="inner", ignore_index=True)
ConcatInner(a, b) ==
  LET cols == SelectSeq(a.cols, LAMBDA l : l \in Range(b.cols))
  IN Frame(cols, Reindex(a, cols) \o Reindex(b, cols))

\* variant: pd.concat([b, a], ignore_index=True)
ConcatSwapped(a, b) ==
  LET cols == AppendNew(b.cols, a.cols)
  IN Frame(cols, Reindex(b, cols) \o Reindex(a, cols))

\* pd.concat([a, b], ignore_index=True)
Concat(a, b) ==
  LET cols == AppendNew(a.cols, b.cols)
  IN Frame(cols, Reindex(a, cols) \o Reindex(b, cols))

HasColumn(df, label) == label \in Range(df.cols)

\* variant: the result of drop is not assigned back
DropNotAssigned(df, label) == df

\* df.drop(columns=[label]): every column carrying the label goes
Drop(df, label) ==
  LET keep == SelectSeq([c \in 1..Len(df.cols) |-> c],
                        LAMBDA c : df.cols[c] # label)
  IN Frame([c \in 1..Len(keep) |-> df.cols[keep[c]]],
           [r \in 1..Len(df.rows) |->
              Row(df.rows[r].src,
                  [c \in 1..Len(keep) |-> df.rows[r].cells[keep[c]]])])

\* df[label] as a list of cells
Column(df, label) ==
  LET p == CHOOSE q \in 1..Len(df.cols) : df.cols[q] = label
  IN [r \in 1..Len(df.rows) |-> df.rows[r].cells[p]]

Max(S) == IF S = {} THEN 0 ELSE CHOOSE m \in S : \A x \in S : x <= m

\* pd.json_normalize(series) for the cnaes_secundarios cells.  A list cell
\* becomes a list of dicts, any other cell an empty dict.  The frame built
\* from these takes its layout from the first element: a list gives one
\* column per list position, labelled with the integers 0, 1, ...; an
\* empty dict gives no columns, and a list met after it has no keys() and
\* raises.
ExpandFails(series) ==
  /\ series # <<>>
  /\ series[1].k # "list"
  /\ \E r \in 1..Len(series) : series[r].k = "list"

Expand(series) ==
  LET width == Max({series[r].n : r \in 1..Len(series)})
  IN Frame([c \in 1..width |-> IntVal(c - 1)],
           [r \in 1..Len(series) |->
              Row(r, [c \in 1..width |->
                        IF series[r].k = "list" /\ c <= series[r].n THEN Dict
                        ELSE NaN])])

\* pd.concat([a, b], axis=1) for two frames with the same row index
ConcatColumns(a, b) ==
  Frame(a.cols \o b.cols,
        [r \in 1..Len(a.rows) |->
           Row(a.rows[r].src, a.rows[r].cells \o b.rows[r].cells)])

\* df.rename(columns={column: new})
Rename(df, column, new) ==
  Frame([c \in 1..Len(df.cols) |-> IF df.cols[c] = column THEN new ELSE df.cols[c]],
        df.rows)

\* the loop of normalizar_dados over the column labels taken before it
RECURSIVE RenameLoop(_, _)
RenameLoop(df, columns) ==
  IF columns = <<>> THEN df
  ELSE RenameLoop(IF StartsWithDigit(Str(Head(columns)))
                  THEN Rename(df, Head(columns),
                              StrVal(PREFIX \o Str(Head(columns))))
                  ELSE df,
                  Tail(columns))

\* ------------------------------------------------------------------ state
VARIABLES
  csv,        \* the cnpj column of the input file, as written
  cnpjs,      \* self.cnpjs
  result_df,  \* self.result_df
  pc,         \* where executar is
  i,          \* identifiers the loop of processar_consultas has finished
  data,       \* the value consulta_cnpj returned, not yet appended
  requests,   \* the URLs requested so far, in order
  responses,  \* history: what each request produced
  preRename,  \* history: the table just before the rename loop, None until then
  error,      \* the exception that ended the run, "none" if none
  output      \* the table written to the output file, None if no file

vars ==
  <<csv, cnpjs, result_df, pc, i, data, requests, responses, preRename,
    error, output>>

\* variant: self.result_df = pd.DataFrame()
InitResultDfEmpty == Frame(<<>>, <<>>)

\* self.result_df = None
InitResultDf == None

Init ==
  /\ csv \in CsvColumns
  /\ cnpjs = _ler_csv(csv)
  /\ result_df = InitResultDf
  /\ pc = "start"
  /\ i = 0
  /\ data = NoData
  /\ requests = <<>>
  /\ responses = <<>>
  /\ preRename = None
  /\ error = "none"
  /\ output = None

\* variant: the exception is swallowed and the run goes on
PropagateSwallowed(raised, next) == next

\* No exception is caught anywhere: a step that raises ends the run.
Propagate(raised, next) == IF raised # "none" THEN "aborted" ELSE next

\* for cnpj in self.cnpjs
LoopHead(done) == IF done < Len(cnpjs) THEN "fetch" ELSE "normalizar"

Executar ==
  /\ pc = "start"
  /\ pc' = LoopHead(0)
  /\ UNCHANGED <<csv, cnpjs, result_df, i, data, requests, responses,
                 preRename, error, output>>

\* data = self.consulta_cnpj(cnpj)
ConsultaError(cnpj, resp) ==
  IF cnpj.kind = "int" THEN "TypeError"
  ELSE IF resp.shape = "raises" THEN "ConnectionError"
  ELSE IF resp.shape = "notjson" THEN "JSONDecodeError"
  ELSE "none"

ConsultaCnpj ==
  /\ pc = "fetch"
  /\ \E resp \in Responses :
       LET cnpj == cnpjs[i + 1]
           raised == ConsultaError(cnpj, resp)
       IN /\ requests' = IF cnpj.kind = "int" THEN requests
                         ELSE Append(requests, URI \o cnpj.s)
          /\ responses' = IF cnpj.kind = "int" THEN responses
                          ELSE Append(responses, resp)
          /\ error' = raised
          /\ data' = IF raised = "none" THEN resp ELSE NoData
          /\ pc' = Propagate(raised, "append")
  /\ UNCHANGED <<csv, cnpjs, result_df, i, preRename, output>>

\* the rest of the loop body: normalise and accumulate
AppendError(resp) == IF resp.shape = "scalar" THEN "NotImplementedError" ELSE "none"

\* variant: the new frame replaces the accumulated one
AccumulateLast(acc, df) == df

Accumulate(acc, df) == IF acc.isNone THEN df ELSE Concat(acc, df)

AppendRows ==
  /\ pc = "append"
  /\ LET raised == AppendError(data)
         df == json_normalize(data.items, i + 1)
     IN /\ error' = raised
        /\ pc' = Propagate(raised, LoopHead(i + 1))
        /\ IF raised = "none"
           THEN /\ result_df' = Accumulate(result_df, df)
                /\ i' = i + 1
           ELSE UNCHANGED <<result_df, i>>
  /\ data' = NoData
  /\ UNCHANGED <<csv, cnpjs, requests, responses, preRename, output>>

\* variant: drop(columns=["qsa"], errors="ignore")
QsaMissingIgnored(df) == FALSE

\* drop(columns=["qsa"]) raises when the table has no such column
QsaMissing(df) == ~HasColumn(df, StrVal(QSA))

\* normalizar_dados
NormalizarError(df) ==
  IF df.isNone THEN "AttributeError"
  ELSE IF QsaMissing(df) THEN "KeyError"
  ELSE IF ~HasColumn(Drop(df, StrVal(QSA)), StrVal(CNAES)) THEN "KeyError"
  ELSE IF ExpandFails(Column(Drop(df, StrVal(QSA)), StrVal(CNAES)))
  THEN "AttributeError"
  ELSE "none"

\* the table just before the rename loop
BeforeRename(df) ==
  LET s1 == Drop(df, StrVal(QSA))
      s2 == ConcatColumns(s1, Expand(Column(s1, StrVal(CNAES))))
  IN Drop(s2, StrVal(CNAES))

NormalizarDados ==
  /\ pc = "normalizar"
  /\ LET raised == NormalizarError(result_df)
     IN /\ error' = raised
        /\ pc' = Propagate(raised, "salvar")
        /\ IF raised = "none"
           THEN /\ preRename' = BeforeRename(result_df)
                /\ result_df' = RenameLoop(BeforeRename(result_df),
                                           BeforeRename(result_df).cols)
           ELSE UNCHANGED <<result_df, preRename>>
  /\ UNCHANGED <<csv, cnpjs, i, data, requests, responses, output>>

\* salvar_resultado
SalvarResultado ==
  /\ pc = "salvar"
  /\ output' = result_df
  /\ pc' = "done"
  /\ UNCHANGED <<csv, cnpjs, result_df, i, data, requests, responses,
                 preRename, error>>

Next ==
  \/ Executar
  \/ ConsultaCnpj
  \/ AppendRows
  \/ NormalizarDados
  \/ SalvarResultado

Spec == Init /\ [][Next]_vars

\* ------------------------------------------------------------- properties
\* vocabulary of the properties
Written == ~output.isNone

ReachedWriter == pc \in {"salvar", "done"}

Cols == IF result_df.isNone THEN <<>> ELSE result_df.cols

Rows == IF result_df.isNone THEN <<>> ELSE result_df.rows

RowSrc == [r \in 1..Len(Rows) |-> Rows[r].src]

\* rows one parsed response body turns into
RowsOf(resp) == IF resp.shape \in {"object", "array"} THEN Len(resp.items) ELSE 0

RowsFor(k) == Cardinality({r \in 1..Len(Rows) : Rows[r].src = k})

RECURSIVE SumRows(_)
SumRows(rs) == IF rs = <<>> THEN 0 ELSE RowsOf(Head(rs)) + SumRows(Tail(rs))

AllObjects == \A k \in 1..Len(responses) : responses[k].shape = "object"

\* the records received so far, whether alone or inside an array
RecordsSeen == UNION {Range(responses[k].items) : k \in 1..Len(responses)}

\* the record has the key at top level with a value that is not an object
HasField(rec, key) == \E j \in 1..Len(rec) : rec[j].key = key /\ rec[j].k # "object"

IsPrefix(a, b) == Len(a) <= Len(b) /\ \A k \in 1..Len(a) : a[k] = b[k]

Count(cols, label) == Cardinality({c \in 1..Len(cols) : cols[c] = label})

\* C1: the run is all-or-nothing.  A file exists only when every identifier
\* was fetched and appended, post-processing ran without error and the
\* writer was the step that produced it; once a step has raised, the run is
\* stopped with no file, and no further step is ever taken.
C1_State ==
  /\ Written =>
       /\ pc = "done"
       /\ error = "none"
       /\ i = Len(cnpjs)
       /\ Len(requests) = Len(cnpjs)
       /\ \A k \in 1..Len(responses) : responses[k].shape \in {"object", "array"}
       /\ ~preRename.isNone
       /\ output = result_df
  /\ error # "none" => pc = "aborted" /\ ~Written
  /\ pc = "aborted" => error # "none"

C1_AllOrNothing ==
  /\ [](C1_State)
  /\ [][error = "none" /\ pc # "aborted" /\ (output' # output => pc = "salvar")]_vars

C1_Witness ==
  /\ pc = "aborted"
  /\ i >= 1
  /\ Len(Rows) >= 1
  /\ ~Written

\* C2 as stated: for a non-empty identifier list, when the fetch phase has
\* completed without error the table has as many rows as identifiers,
\* whatever JSON value each fetch returned.
C2_RowPerIdentifier ==
  (cnpjs # <<>> /\ pc = "normalizar") => Len(Rows) = Len(cnpjs)

\* C2 amended: when the fetch phase has completed without error, every
\* response that was a JSON object has contributed one row and every
\* response that was an array of k objects has contributed k rows; so the
\* table has as many rows as identifiers when every response was an object.
C2_RowPerObject ==
  (cnpjs # <<>> /\ pc = "normalizar")
    => /\ ~result_df.isNone
       /\ Len(Rows) = SumRows(responses)
       /\ AllObjects => Len(Rows) = Len(cnpjs)

C2_Witness ==
  /\ pc = "normalizar"
  /\ Len(cnpjs) >= 2
  /\ AllObjects
  /\ Len(Rows) = Len(cnpjs)

\* C3: a response with a non-2xx status or with a body that is not JSON
\* aborts the run: the identifier gets no row and no file is written.
C3_UpstreamAbort ==
  \A k \in 1..Len(responses) :
    (~responses[k].ok \/ responses[k].shape = "notjson")
      => RowsFor(k) = 0 /\ ~Written

C5_LoaderStrings ==
  /\ Len(cnpjs) = Len(csv)
  /\ \A k \in 1..Len(cnpjs) : cnpjs[k] = StrVal(csv[k])
  /\ error # "TypeError"

\* C6: after normalizar_dados no column name starts with a digit; every
\* column whose name started with a digit just before the rename loop is
\* present exactly once under cnae_secundario_<original name>; every other
\* column keeps its name and its position.
C6_RenameLaw ==
  ReachedWriter =>
    /\ Len(Cols) = Len(preRename.cols)
    /\ \A c \in 1..Len(Cols) :
         /\ ~StartsWithDigit(Str(Cols[c]))
         /\ StartsWithDigit(Str(preRename.cols[c])) =>
              /\ Cols[c] = StrVal(PREFIX \o Str(preRename.cols[c]))
              /\ Count(Cols, Cols[c]) = 1
         /\ ~StartsWithDigit(Str(preRename.cols[c])) => Cols[c] = preRename.cols[c]

\* C7: in every run that gets to the writer, the table handed to the writer
\* and the table written have no column named qsa and none named
\* cnaes_secundarios.
C7_DroppedColumns ==
  /\ ReachedWriter =>
       /\ ~HasColumn(result_df, StrVal(QSA))
       /\ ~HasColumn(result_df, StrVal(CNAES))
  /\ Written =>
       /\ ~HasColumn(output, StrVal(QSA))
       /\ ~HasColumn(output, StrVal(CNAES))

C7_Witness ==
  /\ Written
  /\ HasColumn(output, StrVal(PREFIX \o <<"0">>))
  /\ \E rec \in RecordsSeen : HasField(rec, QSA) /\ HasField(rec, CNAES)

\* C8: in the fetch phase the columns only grow at the end.  Each time a
\* record is appended the old column list is a prefix of the new one, the
\* added columns are field paths not seen before, the rows already there
\* keep their cells, and they hold null in every added column.
C8_Step ==
  (pc = "append" /\ pc' # "aborted") =>
    /\ IsPrefix(Cols, Cols')
    /\ \A c \in (Len(Cols) + 1)..Len(Cols') :
         /\ Cols'[c] \notin Range(Cols)
         /\ \E rec \in Range(data.items) :
              \E f \in 1..Len(Flatten(rec)) : Flatten(rec)[f].label = Cols'[c]
    /\ Len(Rows') >= Len(Rows)
    /\ \A r \in 1..Len(Rows) :
         /\ Len(Rows'[r].cells) = Len(Cols')
         /\ \A c \in 1..Len(Cols) : Rows'[r].cells[c] = Rows[r].cells[c]
         /\ \A c \in (Len(Cols) + 1)..Len(Cols') : Rows'[r].cells[c] = NaN

C8_AppendOnlyColumns == [][C8_Step]_vars

C8_Witness ==
  /\ pc \in {"fetch", "normalizar"}
  /\ Len(Rows) >= 2
  /\ Len(Cols) >= 1
  /\ RowSrc[1] < RowSrc[Len(Rows)]
  /\ Rows[1].cells[Len(Cols)] = NaN
  /\ Rows[Len(Rows)].cells[Len(Cols)] # NaN

\* C9 as stated: fetches go out one at a time in list order, and the row of
\* identifier k is in the table before identifier k + 1 is requested, so the
\* rows are exactly one per identifier processed, in identifier order.
C9_RowPerFetchInOrder ==
  /\ Len(requests) \in {i, i + 1}
  /\ \A k \in 1..Len(requests) : requests[k] = URI \o Str(cnpjs[k])
  /\ RowSrc = [k \in 1..i |-> k]

\* C9 amended: fetches go out one at a time in list order; when identifier
\* k + 1 is requested the rows of identifiers 1..k are in the table and
\* nothing of a later identifier is; the rows are in identifier order with
\* nothing removed or reordered, each response that is one JSON object
\* giving exactly one row (so an identifier listed twice is fetched twice
\* and gives two rows) and each array response one row per element.
C9_SequentialInOrder ==
  /\ Len(requests) \in {i, i + 1}
  /\ pc \in {"fetch", "normalizar", "salvar", "done"} => Len(requests) = i
  /\ \A k \in 1..Len(requests) : requests[k] = URI \o Str(cnpjs[k])
  /\ \A r \in 1..Len(Rows) : RowSrc[r] \in 1..i
  /\ \A r \in 1..(Len(Rows) - 1) : RowSrc[r] <= RowSrc[r + 1]
  /\ \A k \in 1..i : RowsFor(k) = RowsOf(responses[k])

C9_Witness ==
  /\ i = 2
  /\ cnpjs[1] = cnpjs[2]
  /\ requests = <<URI \o csv[1], URI \o csv[1]>>
  /\ AllObjects
  /\ RowSrc = <<1, 2>>

\* C10: with an empty identifier list no request is made, result_df is
\* still None when the fetch phase is over, normalizar_dados raises, and the
\* writer is never reached, so no file exists.
C10_EmptyList ==
  cnpjs = <<>> =>
    /\ requests = <<>>
    /\ result_df.isNone
    /\ pc \in {"start", "normalizar", "aborted"}
    /\ pc = "aborted" => error = "AttributeError"
    /\ ~Written

C10_Witness ==
  /\ cnpjs = <<>>
  /\ csv = <<>>
  /\ pc = "aborted"
  /\ error = "AttributeError"
  /\ ~Written

====
